---- MODULE Spec2Model ----
(***************************************************************************)
(* Model of package scram (internal/scram/scram.go): the adapter Client    *)
(* that drives a github.com/xdg-go/scram ClientConversation inside a SASL  *)
(* loop.  The adapter's own code (NewMethod, NewClient, Out, Err, Step) is *)
(* translated statement by statement.  The imported conversation           *)
(* (xdg.Client, xdg.ClientConversation) is modelled at the places where    *)
(* the adapter calls it, by what the library does at those calls.          *)
(*                                                                         *)
(* Data representation.  A Go string or []byte is a sequence.  A wire      *)
(* message received from the server is represented by the attributes its   *)
(* text carries (a record with a kind k), so that parsing is a test on     *)
(* the kind.  Digests are symbolic terms: two digests are equal exactly    *)
(* when they were computed from the same inputs.  A nil []byte is the      *)
(* empty sequence, as hmac.Equal cannot tell the two apart.                *)
(***************************************************************************)
EXTENDS Integers, Sequences, FiniteSets, TLC

\* ----------------------------------------------------------------- bounds
\* Number of Step calls the outer loop makes on one Client.
MaxSteps == 4

\* Number of Out() calls, and of Err() calls, made between two Step calls.
MaxObs == 2

\* ------------------------------------------------------ program constants
ScramSha1 == "SCRAM-SHA-1"

ScramSha256 == "SCRAM-SHA-256"

\* Go's nil error.
Nil == "<nil>"

\* xdg.Client.minIters default (the adapter never calls WithMinIterations).
MinIters == 4096

\* ------------------------------------------------------------ input sets
\* Mechanism names handed to NewMethod.
MethodStrings ==
  {ScramSha1, ScramSha256, "", "scram-sha-1", "scram-sha-256",
   "SCRAM-SHA-256-PLUS", "example"}

\* A character SASLprep prohibits (a control character).
NUL == "NUL"

Users == {<<"u">>, <<"u", "=">>, <<NUL>>}

Passwords == {<<"p">>, <<NUL>>}

\* Characters a nonce is made of.
NonceAlphabet == {"a", "b"}

\* Nonces the client's generator can produce.
ClientNonces == {<<a>> : a \in NonceAlphabet}

\* r= values a server can send: any nonce of length 1 or 2.
ServerNonces ==
  ClientNonces \cup {<<a, b>> : a \in NonceAlphabet, b \in NonceAlphabet}

Salts == {"salt"}

IterCounts == {MinIters - 1, MinIters}

ErrTexts == {<<>>, <<"other-error">>}

\* ------------------------------------------------------- wire messages
Msg(k, r, s, i, v, e) == [k |-> k, r |-> r, s |-> s, i |-> i, v |-> v, e |-> e]

EmptyMsg == Msg("empty", <<>>, "", 0, <<>>, <<>>)

JunkMsg == Msg("junk", <<>>, "", 0, <<>>, <<>>)

ServerFirst(r, s, i) == Msg("sfirst", r, s, i, <<>>, <<>>)

ServerFinalV(v) == Msg("sfinal", <<>>, "", 0, v, <<>>)

ServerFinalE(e) == Msg("serr", <<>>, "", 0, <<>>, e)

\* A digest that differs from b in one byte.
Tamper(b) == IF b = <<>> THEN <<"x">> ELSE [b EXCEPT ![1] = "tampered"]

\* ------------------------------------------------------------- NewMethod
NilMethod == [isNil |-> TRUE, method |-> ""]

NewMethod_AcceptsPlus(methodString) ==
  IF methodString \in {ScramSha1, ScramSha256, "SCRAM-SHA-256-PLUS"}
  THEN [m |-> [isNil |-> FALSE, method |-> methodString], err |-> Nil]
  ELSE [m |-> NilMethod, err |-> "invalid SCRAM mechanism"]

NewMethod(methodString) ==
  IF methodString \in {ScramSha1, ScramSha256}
  THEN [m |-> [isNil |-> FALSE, method |-> methodString], err |-> Nil]
  ELSE [m |-> NilMethod, err |-> "invalid SCRAM mechanism"]

\* ------------------------------------------------- xdg: client creation
\* stringprep.SASLprep.Prepare: fails on a prohibited character; the
\* characters of Users and Passwords are otherwise mapped to themselves.
SASLprep(s) ==
  IF \E k \in 1..Len(s) : s[k] = NUL
  THEN [v |-> <<>>, err |-> "prohibited character"]
  ELSE [v |-> s, err |-> Nil]

NilXdgClient ==
  [isNil |-> TRUE, username |-> <<>>, password |-> <<>>,
   minIters |-> 0, hashGen |-> ""]

\* HashGeneratorFcn.NewClient(username, password, ""): (nil, err) when
\* SASLprep rejects the username or the password.
XdgNewClient(hashGen, user, pass) ==
  LET up == SASLprep(user)
      pp == SASLprep(pass)
  IN  IF up.err # Nil
      THEN [client |-> NilXdgClient, err |-> "Error SASLprepping username"]
      ELSE IF pp.err # Nil
      THEN [client |-> NilXdgClient, err |-> "Error SASLprepping password"]
      ELSE [client |-> [isNil |-> FALSE, username |-> up.v,
                        password |-> pp.v, minIters |-> MinIters,
                        hashGen |-> hashGen],
            err |-> Nil]

\* Client.NewConversation(): the zero ClientConversation bound to client.
NewConversation(client) ==
  [client |-> client, state |-> "clientStarting", valid |-> FALSE,
   gs2 |-> <<>>, nonce |-> <<>>, c1b |-> <<>>, serveSig |-> <<>>]

\* ---------------------------------------------------- xdg: crypto core
\* Hi(password, salt, iters): the salted password, as a term.
SaltedPassword(hashGen, password, salt, iters) ==
  <<"Hi", hashGen, password, salt, iters>>

\* computeHMAC(hashGen, key, data), as a term.
ComputeHMAC(hashGen, key, data) == <<"HMAC", hashGen, key, data>>

ServerKey(hashGen, sp) == ComputeHMAC(hashGen, sp, <<"Server Key">>)

ClientKey(hashGen, sp) == ComputeHMAC(hashGen, sp, <<"Client Key">>)

StoredKey(ck) == <<"H", ck>>

XorBytes(a, b) == <<"XOR", a, b>>

\* hmac.Equal: subtle.ConstantTimeCompare(mac1, mac2) == 1, that is equal
\* lengths and equal bytes; a nil slice and an empty slice compare equal.
HmacEqual(mac1, mac2) == Len(mac1) = Len(mac2) /\ mac1 = mac2

\* ------------------------------------------------- xdg: wire codec
RECURSIVE EncodeName(_)
\* encodeName: "=" becomes "=3D" and "," becomes "=2C".
EncodeName(s) ==
  IF s = <<>> THEN <<>>
  ELSE (IF Head(s) = "=" THEN <<"=", "3", "D">>
        ELSE IF Head(s) = "," THEN <<"=", "2", "C">>
        ELSE <<Head(s)>>) \o EncodeName(Tail(s))

\* strings.HasPrefix(s, prefix)
HasPrefix(s, prefix) ==
  Len(prefix) <= Len(s) /\ SubSeq(s, 1, Len(prefix)) = prefix

\* parseServerFirst: needs the three fields r=, s=, i=.
ParseServerFirst(s1) ==
  IF s1.k = "sfirst"
  THEN [nonce |-> s1.r, salt |-> s1.s, iters |-> s1.i, err |-> Nil]
  ELSE [nonce |-> <<>>, salt |-> "", iters |-> 0,
        err |-> "error parsing server-first-message"]

\* parseServerFinal: v=<base64> gives the verifier, else e=<text> gives the
\* server's error text, else the message does not parse.
ParseServerFinal(s2) ==
  IF s2.k = "sfinal" THEN [verifier |-> s2.v, err |-> <<>>, perr |-> Nil]
  ELSE IF s2.k = "serr" THEN [verifier |-> <<>>, err |-> s2.e, perr |-> Nil]
  ELSE [verifier |-> <<>>, err |-> <<>>,
        perr |-> "error parsing server-final-message"]

\* ------------------------------------------ xdg: ClientConversation
\* firstMsg: caches gs2, a fresh nonce and client-first-message-bare.
FirstMsg(cc, rnd) ==
  LET gs2 == <<"n", ",", ",">>
      c1b == <<"n", "=">> \o EncodeName(cc.client.username)
             \o <<",", "r", "=">> \o rnd
  IN  [conv |-> [cc EXCEPT !.gs2 = gs2, !.nonce = rnd, !.c1b = c1b],
       response |-> gs2 \o c1b, err |-> Nil]

\* client-final-message-without-proof
C2wop(gs2, nonce) == <<"c", "=", <<"base64", gs2>>, ",", "r", "=">> \o nonce

AuthMsg(c1b, s1, c2wop) == <<c1b, s1, c2wop>>

\* finalMsg: parse, check the nonce prefix, adopt the server nonce, check
\* the iteration count, then compute the proof and cache ServerSignature.
FinalMsg(cc, s1) ==
  LET msg == ParseServerFirst(s1)
      cc1 == [cc EXCEPT !.nonce = msg.nonce]
      c2wop == C2wop(cc.gs2, msg.nonce)
      authMsg == AuthMsg(cc.c1b, s1, c2wop)
      hg == cc.client.hashGen
      sp == SaltedPassword(hg, cc.client.password, msg.salt, msg.iters)
      ck == ClientKey(hg, sp)
      clientSignature == ComputeHMAC(hg, StoredKey(ck), authMsg)
      proof == <<"base64", XorBytes(ck, clientSignature)>>
  IN  IF msg.err # Nil
      THEN [conv |-> cc, response |-> <<>>, err |-> msg.err]
      ELSE IF ~HasPrefix(msg.nonce, cc.nonce)
      THEN [conv |-> cc, response |-> <<>>,
            err |-> "server nonce did not extend client nonce"]
      ELSE IF msg.iters < cc.client.minIters
      THEN [conv |-> cc1, response |-> <<>>,
            err |-> "server requested too few iterations"]
      ELSE [conv |-> [cc1 EXCEPT !.serveSig =
                        ComputeHMAC(hg, ServerKey(hg, sp), authMsg)],
            response |-> c2wop \o <<",", "p", "=", proof>>,
            err |-> Nil]

\* validateServer: parse, surface e=, compare the verifier with the cached
\* ServerSignature, and only then set valid.
ValidateServer(cc, s2) ==
  LET msg == ParseServerFinal(s2)
  IN  IF msg.perr # Nil THEN [conv |-> cc, err |-> msg.perr]
      ELSE IF Len(msg.err) > 0 THEN [conv |-> cc, err |-> "server error"]
      ELSE IF ~HmacEqual(msg.verifier, cc.serveSig)
      THEN [conv |-> cc, err |-> "server validation failed"]
      ELSE [conv |-> [cc EXCEPT !.valid = TRUE], err |-> Nil]

\* ClientConversation.Step: the state advances before the handler runs,
\* whether or not the handler then fails.
ConvStep(cc, challenge, rnd) ==
  IF cc.state = "clientStarting"
  THEN FirstMsg([cc EXCEPT !.state = "clientFirst"], rnd)
  ELSE IF cc.state = "clientFirst"
  THEN FinalMsg([cc EXCEPT !.state = "clientFinal"], challenge)
  ELSE IF cc.state = "clientFinal"
  THEN LET r == ValidateServer([cc EXCEPT !.state = "clientDone"], challenge)
       IN  [conv |-> r.conv, response |-> <<>>, err |-> r.err]
  ELSE [conv |-> cc, response |-> <<>>,
        err |-> "Conversation already completed"]

\* ClientConversation.Valid
Valid(cc) == cc.valid

\* ---------------------------------------------------- bytes.Buffer
BufferReset_Keep(buf) == buf

\* Buffer.Reset: empties the buffer.
BufferReset(buf) == <<>>

\* Buffer.Write(p): appends p; the returned error is always nil.
BufferWrite(buf, p) == [buf |-> buf \o p, n |-> Len(p), err |-> Nil]

\* ------------------------------------------------------- the adapter
\* NewClient: picks the hash by method, creates the xdg client and its
\* conversation.  client.NewConversation() dereferences client, so a nil
\* client (setup error, or a method matching neither case) panics.
NewClient(method, user, pass) ==
  LET r == IF method.method = ScramSha1 THEN XdgNewClient("SHA1", user, pass)
           ELSE IF method.method = ScramSha256
           THEN XdgNewClient("SHA256", user, pass)
           ELSE [client |-> NilXdgClient, err |-> Nil]
  IN  IF r.client.isNil
      THEN [panic |-> TRUE,
            c |-> [out |-> <<>>, err |-> r.err,
                   conv |-> NewConversation(NilXdgClient)]]
      ELSE [panic |-> FALSE,
            c |-> [out |-> <<>>, err |-> r.err,
                   conv |-> NewConversation(r.client)]]

\* Client.Out
Out(c) == IF Len(c.out) = 0 THEN <<>> ELSE c.out

\* Client.Err
Err(c) == c.err

Step_ErrOnly(c, in, rnd) ==
  LET out0 == BufferReset(c.out)
      r == ConvStep(c.conv, in, rnd)
      w == BufferWrite(out0, r.response)
      c1 == [out |-> w.buf, err |-> w.err, conv |-> r.conv]
  IN  [c |-> c1, convErr |-> r.err, ret |-> (c1.err # Nil)]

OutCall_Drains(c) ==
  [c |-> [c EXCEPT !.out = <<>>], val |-> [isNil |-> FALSE, bytes |-> Out(c)]]

\* A call of Client.Out: the Client after the call and the slice returned.
\* Both branches return a non-nil slice: the literal []byte{}, or Bytes()
\* of a buffer that is not empty.
OutCall(c) == [c |-> c, val |-> [isNil |-> FALSE, bytes |-> Out(c)]]

\* A call of Client.Err: the Client after the call and the error returned.
ErrCall(c) == [c |-> c, val |-> Err(c)]

Step_NoReset(c, in, rnd) ==
  LET r == ConvStep(c.conv, in, rnd)
      w == BufferWrite(c.out, r.response)
      c1 == [out |-> w.buf, err |-> w.err, conv |-> r.conv]
  IN  [c |-> c1, convErr |-> r.err, ret |-> (Valid(c1.conv) \/ c1.err # Nil)]

Step_ValidNoErr(c, in, rnd) ==
  LET out0 == BufferReset(c.out)
      r == ConvStep(c.conv, in, rnd)
      w == BufferWrite(out0, r.response)
      c1 == [out |-> w.buf, err |-> w.err, conv |-> r.conv]
  IN  [c |-> c1, convErr |-> r.err, ret |-> (Valid(c1.conv) /\ r.err = Nil)]

Step_NotValid(c, in, rnd) ==
  LET out0 == BufferReset(c.out)
      r == ConvStep(c.conv, in, rnd)
      w == BufferWrite(out0, r.response)
      c1 == [out |-> w.buf, err |-> w.err, conv |-> r.conv]
  IN  [c |-> c1, convErr |-> r.err, ret |-> (~Valid(c1.conv) \/ c1.err # Nil)]

\* Client.Step.  convErr is the value c.err holds between the assignment
\* from conv.Step and the assignment from out.Write that replaces it.
Step(c, in, rnd) ==
  LET out0 == BufferReset(c.out)
      r == ConvStep(c.conv, in, rnd)
      w == BufferWrite(out0, r.response)
      c1 == [out |-> w.buf, err |-> w.err, conv |-> r.conv]
  IN  [c |-> c1, convErr |-> r.err, ret |-> (Valid(c1.conv) \/ c1.err # Nil)]

\* ------------------------------------------------------------ state
VARIABLES
  pc,            \* "start", "method", "client" or "panic": the caller's position
  methodString,  \* the name last handed to NewMethod
  method,        \* NewMethod's *Method result
  methodErr,     \* NewMethod's error result
  client,        \* the Client: out, err, conv
  nsteps,        \* number of Step calls made on client
  lastIn,        \* the input of the last Step call
  ret,           \* the last Step call's result: "none", "true" or "false"
  convErr,       \* the error conv.Step returned inside the last Step call
  failed,        \* some Step call's conversation step has failed
  seenOut,       \* the slices Out() returned since the last Step call
  seenErr,       \* the errors Err() returned since the last Step call
  heap,          \* two Clients: the conversations allocated, by address
  nextAddr,      \* two Clients: the next address the allocator hands out
  pair,          \* two Clients: out, err and the address conv points to
  pairN,         \* two Clients: number of Step calls made on each
  pairRet,       \* two Clients: the last Step result of each
  solo,          \* each of the two Clients as it is when driven alone
  soloRet        \* the last Step result of each Client driven alone

mainVars ==
  <<pc, methodString, method, methodErr, client, nsteps, lastIn, ret,
    convErr, failed>>

obsVars == <<seenOut, seenErr>>

pairVars == <<heap, nextAddr, pair, pairN, pairRet, solo, soloRet>>

vars == <<mainVars, obsVars, pairVars>>

NoClient ==
  [out |-> <<>>, err |-> Nil, conv |-> NewConversation(NilXdgClient)]

PairIds == {1, 2}

\* The pair before either Client is created.
InitPairVars ==
  /\ heap = [a \in PairIds |-> NewConversation(NilXdgClient)]
  /\ nextAddr = 1
  /\ pair = [i \in PairIds |-> [made |-> FALSE, out |-> <<>>, err |-> Nil, conv |-> 0]]
  /\ pairN = [i \in PairIds |-> 0]
  /\ pairRet = [i \in PairIds |-> "none"]
  /\ solo = [i \in PairIds |-> NoClient]
  /\ soloRet = [i \in PairIds |-> "none"]

InitMainVars ==
  /\ pc = "start"
  /\ methodString = ""
  /\ method = NilMethod
  /\ methodErr = Nil
  /\ client = NoClient
  /\ nsteps = 0
  /\ lastIn = EmptyMsg
  /\ ret = "none"
  /\ convErr = Nil
  /\ failed = FALSE
  /\ seenOut = <<>>
  /\ seenErr = <<>>

Init == InitMainVars /\ InitPairVars

\* The caller obtains a Method.
CallNewMethod ==
  /\ pc = "start"
  /\ \E name \in MethodStrings :
       LET r == NewMethod(name)
       IN  /\ methodString' = name
           /\ method' = r.m
           /\ methodErr' = r.err
  /\ pc' = "method"
  /\ UNCHANGED <<client, nsteps, lastIn, ret, convErr, failed>>
  /\ UNCHANGED <<obsVars, pairVars>>

\* The caller creates a Client from the Method it obtained.
CallNewClient ==
  /\ pc = "method"
  /\ methodErr = Nil
  /\ \E user \in Users, pass \in Passwords :
       LET r == NewClient(method, user, pass)
       IN  /\ client' = r.c
           /\ pc' = IF r.panic THEN "panic" ELSE "client"
  /\ UNCHANGED <<methodString, method, methodErr, nsteps, lastIn, ret,
                 convErr, failed>>
  /\ UNCHANGED <<obsVars, pairVars>>

\* What a server, conformant or not, can send in reply.
ServerMsgs(c) ==
  {EmptyMsg, JunkMsg}
    \cup {ServerFirst(r, s, i) : r \in ServerNonces, s \in Salts, i \in IterCounts}
    \cup {ServerFinalV(v) : v \in {<<>>, c.conv.serveSig, Tamper(c.conv.serveSig)}}
    \cup {ServerFinalE(e) : e \in ErrTexts}

\* The caller calls client.Step(in).
CallStep ==
  /\ pc = "client"
  /\ nsteps < MaxSteps
  /\ \E in \in ServerMsgs(client), rnd \in ClientNonces :
       LET r == Step(client, in, rnd)
       IN  /\ client' = r.c
           /\ convErr' = r.convErr
           /\ ret' = IF r.ret THEN "true" ELSE "false"
           /\ failed' = (failed \/ r.convErr # Nil)
           /\ lastIn' = in
  /\ nsteps' = nsteps + 1
  /\ seenOut' = <<>>
  /\ seenErr' = <<>>
  /\ UNCHANGED <<pc, methodString, method, methodErr>>
  /\ UNCHANGED pairVars

\* The caller calls client.Out().
CallOut ==
  /\ pc = "client"
  /\ Len(seenOut) < MaxObs
  /\ LET r == OutCall(client)
     IN  /\ client' = r.c
         /\ seenOut' = Append(seenOut, r.val)
  /\ UNCHANGED <<pc, methodString, method, methodErr, nsteps, lastIn, ret,
                 convErr, failed, seenErr>>
  /\ UNCHANGED pairVars

\* The caller calls client.Err().
CallErr ==
  /\ pc = "client"
  /\ Len(seenErr) < MaxObs
  /\ LET r == ErrCall(client)
     IN  /\ client' = r.c
         /\ seenErr' = Append(seenErr, r.val)
  /\ UNCHANGED <<pc, methodString, method, methodErr, nsteps, lastIn, ret,
                 convErr, failed, seenOut>>
  /\ UNCHANGED pairVars

Next == CallNewMethod \/ CallNewClient \/ CallStep \/ CallOut \/ CallErr

Spec == Init /\ [][Next]_vars

\* ------------------------------------------------------ two Clients
\* Two Clients created independently and stepped in any interleaving.  A
\* Client holds its buffer and its error by value and its conversation by
\* pointer, so conversations live in a heap and a Client holds an address.
AllocConv_Shared(next) == 1

\* &ClientConversation{...}: every NewConversation call allocates a new
\* conversation, at an address no other Client holds.
AllocConv(next) == next

\* Client i with its conversation read through the pointer.
View(i) == [out |-> pair[i].out, err |-> pair[i].err, conv |-> heap[pair[i].conv]]

\* The replies used to drive the pair: no input, a server-first-message
\* with an acceptable iteration count, and every server-final-message.
PairMsgs(c) ==
  {m \in ServerMsgs(c) :
     \/ m.k \in {"empty", "sfinal"}
     \/ (m.k = "sfirst" /\ m.i = MinIters /\ Len(m.r) = 2)}

InitPair ==
  /\ InitMainVars
  /\ InitPairVars

\* NewClient for Client i, from a Method of NewMethod and credentials that
\* SASLprep accepts.
PairNewClient ==
  /\ \E i \in PairIds, name \in {ScramSha1, ScramSha256},
        user \in {<<"u">>}, pass \in Passwords :
       LET r == NewClient(NewMethod(name).m, user, pass)
           a == AllocConv(nextAddr)
       IN  /\ ~pair[i].made
           /\ ~r.panic
           /\ heap' = [heap EXCEPT ![a] = r.c.conv]
           /\ pair' = [pair EXCEPT ![i] = [made |-> TRUE, out |-> r.c.out,
                                           err |-> r.c.err, conv |-> a]]
           /\ solo' = [solo EXCEPT ![i] = r.c]
  /\ nextAddr' = nextAddr + 1
  /\ UNCHANGED <<pairN, pairRet, soloRet>>
  /\ UNCHANGED <<mainVars, obsVars>>

\* Step on Client i: the conversation is read and written through the
\* Client's pointer; the same call is made on the Client driven alone.
PairStep ==
  /\ \E i \in PairIds :
       /\ pair[i].made
       /\ pairN[i] < MaxSteps
       /\ \E in \in PairMsgs(View(i)), rnd \in ClientNonces :
            LET r == Step(View(i), in, rnd)
                q == Step(solo[i], in, rnd)
            IN  /\ heap' = [heap EXCEPT ![pair[i].conv] = r.c.conv]
                /\ pair' = [pair EXCEPT ![i].out = r.c.out, ![i].err = r.c.err]
                /\ pairRet' = [pairRet EXCEPT ![i] = IF r.ret THEN "true" ELSE "false"]
                /\ solo' = [solo EXCEPT ![i] = q.c]
                /\ soloRet' = [soloRet EXCEPT ![i] = IF q.ret THEN "true" ELSE "false"]
       /\ pairN' = [pairN EXCEPT ![i] = pairN[i] + 1]
  /\ UNCHANGED nextAddr
  /\ UNCHANGED <<mainVars, obsVars>>

NextPair == PairNewClient \/ PairStep

SpecPair == InitPair /\ [][NextPair]_vars

\* ------------------------------------------------------------ claims
\* The conversation still waits for a server message.
MoreExpected(c) ==
  c.conv.state \in {"clientFirst", "clientFinal"} /\ ~Valid(c.conv)

\* A Step call is being made.
Stepping == nsteps' = nsteps + 1

C2_ErrAfterFailedStep ==
  (nsteps > 0 /\ convErr # Nil) => Err(client) # Nil

\* C3: Step returns false exactly when the step produced no error and more
\* data is still expected; in every other case it returns true.
C3_StepFalseIffMore ==
  nsteps > 0 => (ret = "false" <=> (convErr = Nil /\ MoreExpected(client)))

\* C4 as amended: the 1st Step (empty input) yields a non-empty message and
\* reports more data expected; the 2nd Step, on a server-first-message whose
\* r= extends the client nonce and whose i= is at least the minimum
\* iteration count, does the same; the 3rd Step, on a v= equal to the
\* locally computed server signature, reports done with a nil Err() and an
\* empty Out().
C4_ConformantRun ==
  [][Stepping =>
      /\ (nsteps = 0 /\ lastIn' = EmptyMsg) =>
           (Len(Out(client')) > 0 /\ ret' = "false")
      /\ (nsteps = 1 /\ ~failed /\ lastIn'.k = "sfirst"
            /\ HasPrefix(lastIn'.r, client.conv.nonce)
            /\ lastIn'.i >= MinIters) =>
           (Len(Out(client')) > 0 /\ ret' = "false")
      /\ (nsteps = 2 /\ ~failed /\ lastIn'.k = "sfinal"
            /\ lastIn'.v = client.conv.serveSig) =>
           (ret' = "true" /\ Err(client') = Nil /\ Out(client') = <<>>)
    ]_vars

C4_Witness ==
  /\ nsteps = 3 /\ ~failed /\ lastIn.k = "sfinal"
  /\ lastIn.v = client.conv.serveSig /\ Valid(client.conv) /\ ret = "true"

\* C4 as stated: the 2nd Step yields a non-empty client-final-message and
\* reports more data expected on every server-first-message whose r= extends
\* the client nonce.
C4_AnyIterationCount ==
  [][Stepping =>
      ((nsteps = 1 /\ ~failed /\ lastIn'.k = "sfirst"
          /\ HasPrefix(lastIn'.r, client.conv.nonce)) =>
         (Len(Out(client')) > 0 /\ ret' = "false"))
    ]_vars

\* C5: when the v= of the server-final-message differs from the locally
\* computed server signature, the 3rd Step ends with a non-nil Err() and
\* the conversation is not valid.
C5_MismatchObservable ==
  [][Stepping =>
      ((nsteps = 2 /\ lastIn'.k = "sfinal"
          /\ lastIn'.v # client.conv.serveSig) =>
         (Err(client') # Nil /\ ~Valid(client'.conv)))
    ]_vars

\* C6: once a conversation step has failed, no Step call reports success
\* (done with a nil Err()) and the conversation never becomes valid.
C6_FailedStaysFailed ==
  failed => (~(ret = "true" /\ Err(client) = Nil) /\ ~Valid(client.conv))

\* C7: when the r= of the server-first-message does not start with the
\* client nonce, the 2nd Step leaves a non-nil Err() and an empty Out().
C7_NonceMismatch ==
  [][Stepping =>
      ((nsteps = 1 /\ lastIn'.k = "sfirst"
          /\ ~HasPrefix(lastIn'.r, client.conv.nonce)) =>
         (Err(client') # Nil /\ Out(client') = <<>>))
    ]_vars

\* C8: a Step call on a terminal conversation (completed, or failed) leaves
\* a non-nil Err() and an empty Out().
C8_ReuseRejected ==
  [][Stepping =>
      ((client.conv.state = "clientDone" \/ failed) =>
         (Err(client') # Nil /\ Out(client') = <<>>))
    ]_vars

\* C9: NewClient returns a Client for every Method of NewMethod and every
\* username and password; it never panics.
C9_NewClientNeverPanics == pc # "panic"

\* C10: whenever a Step call reports done, Out() is empty.
C10_DoneMeansEmptyOut ==
  ret = "true" => Out(client) = <<>>

C10_Witness ==
  ret = "true" /\ nsteps >= 3 /\ client.conv.state = "clientDone"

\* C11: on the 3rd Step a server-final-message carrying e=<reason> leaves an
\* Err() that is neither nil, nor the malformed-message error, nor the
\* signature-mismatch error; a message that does not parse leaves an Err()
\* that is neither nil nor the signature-mismatch error.
C11_DistinctErrors ==
  [][Stepping =>
      /\ (nsteps = 2 /\ ~failed /\ lastIn'.k = "serr" /\ lastIn'.e # <<>>) =>
           Err(client') \notin {Nil, "error parsing server-final-message",
                                "server validation failed"}
      /\ (nsteps = 2 /\ ~failed /\ lastIn'.k \in {"junk", "empty", "sfirst"}) =>
           Err(client') \notin {Nil, "server validation failed"}
    ]_vars

\* C12: after every Step call Out() holds exactly the response of that
\* call's conversation step and nothing of an earlier step; it is empty
\* after a step that failed or that found the conversation completed.
C12_OutIsThisStepOnly ==
  [][Stepping =>
      /\ \E rnd \in ClientNonces :
           Out(client') = ConvStep(client.conv, lastIn', rnd).response
      /\ (convErr' # Nil \/ client.conv.state = "clientDone") =>
           Out(client') = <<>>
    ]_vars

C12_Witness ==
  nsteps = 2 /\ convErr # Nil /\ Out(client) = <<>> /\ client.conv.c1b # <<>>

\* The phase of the conversation as the caller can know it.
Phase(c, f) ==
  IF Valid(c.conv) THEN "Success"
  ELSE IF f \/ c.conv.state = "clientDone" THEN "Failed"
  ELSE IF c.conv.state = "clientStarting" THEN "Initial"
  ELSE IF c.conv.state = "clientFirst" THEN "ClientFirstSent"
  ELSE "Completed"

PhaseMoves ==
  {<<"Initial", "ClientFirstSent">>, <<"ClientFirstSent", "Completed">>,
   <<"Completed", "Success">>, <<"Initial", "Failed">>,
   <<"ClientFirstSent", "Failed">>, <<"Completed", "Failed">>,
   <<"Success", "Success">>, <<"Failed", "Failed">>}

\* The bytes are a client-final-message (it starts with c=).
IsClientFinal(o) == Len(o) > 0 /\ o[1] = "c"

\* C13: a Step call moves the phase only along Initial -> ClientFirstSent
\* -> Completed -> Success, or to Failed from a phase that is not terminal,
\* and emits a client-final-message only from ClientFirstSent on a
\* server-first-message it accepted.
C13_PhaseOrder ==
  [][Stepping =>
      /\ <<Phase(client, failed), Phase(client', failed')>> \in PhaseMoves
      /\ IsClientFinal(Out(client')) =>
           (Phase(client, failed) = "ClientFirstSent"
              /\ lastIn'.k = "sfirst" /\ convErr' = Nil)
    ]_vars

\* C15: Step returns true only if the conversation is valid or Err() is
\* non-nil; a Step that returned true with a nil Err() had the conversation
\* run its server-signature validation and pass it.
C15_TrueMeansValidOrErr ==
  /\ ret = "true" => (Valid(client.conv) \/ Err(client) # Nil)
  /\ (ret = "true" /\ Err(client) = Nil) =>
       (Valid(client.conv) /\ client.conv.state = "clientDone")

C15_Witness ==
  ret = "true" /\ Err(client) = Nil /\ Valid(client.conv) /\ nsteps = 3 /\ ~failed

\* C16: once a Step call has returned true on a valid conversation, every
\* later Step call returns true and leaves Out() empty.
C16_SuccessLatches ==
  [][Stepping =>
      ((ret = "true" /\ Valid(client.conv)) =>
         (ret' = "true" /\ Out(client') = <<>> /\ Valid(client'.conv)))
    ]_vars

C16_Witness ==
  nsteps = 4 /\ ret = "true" /\ Valid(client.conv)
    /\ convErr = "Conversation already completed"

\* C17: Out() is non-empty only after the 1st or the 2nd Step call; from
\* the 3rd Step call on it is empty.
C17_AtMostTwoMessages ==
  /\ nsteps >= 3 => Out(client) = <<>>
  /\ Len(Out(client)) > 0 => nsteps \in {1, 2}

C17_Witness ==
  nsteps = 3 /\ Out(client) = <<>> /\ ~Valid(client.conv) /\ lastIn.k = "sfirst"

\* C18: a call of Out() or Err() leaves the Client as it was (phase,
\* buffered output, stored error); the calls made between two Step calls
\* all return the same value; the slice Out() returns is never nil, also
\* when the buffer is empty.
C18_PureObservers ==
  [][(Len(seenOut') > Len(seenOut) \/ Len(seenErr') > Len(seenErr)) =>
      /\ client' = client
      /\ \A k \in 1..Len(seenOut') :
           seenOut'[k] = seenOut'[1] /\ ~seenOut'[k].isNil
             /\ seenOut'[k].bytes = client.out
      /\ \A k \in 1..Len(seenErr') :
           seenErr'[k] = seenErr'[1] /\ seenErr'[k] = client.err
    ]_vars

C18_Witness ==
  /\ Len(seenOut) = 2 /\ Len(seenErr) = 2 /\ nsteps = 2
  /\ client.out = <<>> /\ seenOut[2].bytes = <<>> /\ ~seenOut[2].isNil
  /\ convErr # Nil /\ seenErr[2] = Nil

\* What the caller can observe of Client i: phase, Out() and Err().
Observed(c) == [state |-> c.conv.state, valid |-> Valid(c.conv),
                out |-> Out(c), err |-> Err(c)]

\* C14: under any interleaving of Step calls on two Clients created
\* independently, a Step on one leaves the other's phase, Out() and Err()
\* unchanged, and each Client is, after every call, exactly as it is when
\* driven alone with the same inputs, with the same Step results.
C14_NoSharedState ==
  [][/\ \A i \in PairIds, j \in PairIds :
          (i # j /\ pairN'[i] = pairN[i] + 1 /\ pair[j].made) =>
            (pair'[j].made /\ Observed(View(j)') = Observed(View(j)))
     /\ \A i \in PairIds :
          pair'[i].made => (View(i)' = solo'[i] /\ pairRet'[i] = soloRet'[i])
    ]_vars

C14_Witness ==
  /\ pair[1].made /\ pair[2].made
  /\ pairN[1] = 3 /\ pairRet[1] = "true"
  /\ pairN[2] = 2 /\ pairRet[2] = "false" /\ IsClientFinal(pair[2].out)

====
